---- MODULE Spec2Model ----
(* Events service: request validation (models/dto.go), timestamp parsing   *)
(* (utils), the SQLite-backed repository (repository/repository.go) and    *)
(* the HTTP handlers (service).                                            *)
(*                                                                         *)
(* Time is measured on a coarse grid: wall clocks and UTC offsets are      *)
(* whole hours, sub-second fractions are tenths of a second.               *)
EXTENDS Integers, Sequences, FiniteSets, TLC

VARIABLES rows, last

vars == <<rows, last>>

-----------------------------------------------------------------------------
(* Bounds *)

\* wall-clock hours written in request timestamps range over 0..MaxHour
MaxHour == 1

\* identifiers are 1..NumUUIDs; 0 is uuid.Nil
NumUUIDs == 2

-----------------------------------------------------------------------------
(* Values *)

MaxTitleLength == 100

\* CHECK(length(title) <= 100) of the events table
TitleCheckLimit == 100

TitleEmpty == "title should not be empty"
TitleTooLong == "title exceeds maximum length of 100 characters"
EndTimeBeforeStart == "end_time should be after start_time"
InvalidTimeFormat == "invalid time format, expected ISO 8601 format"
NoError == "nil"

\* a string is known by its number of characters and of bytes (UTF-8)
Str(c, b) == [chars |-> c, bytes |-> b]

EmptyTitle == Str(0, 0)
ShortTitle == Str(1, 1)

\* Go len(s): the number of bytes
len(s) == s.bytes

\* SQLite length(X) on TEXT: the number of characters
length(s) == s.chars

NilDescription == "<nil>"

Hours == 0 .. MaxHour

\* zone designators of a written timestamp; "" is none
ZoneOffset(z) ==
    CASE z = "+01:00" -> 1
      [] z = "-01:00" -> -1
      [] OTHER -> 0

\* the zone Format writes for an offset: Z for offset zero
ZoneText(off) ==
    CASE off = 0 -> "Z"
      [] off > 0 -> "+01:00"
      [] OTHER -> "-01:00"

\* fraction of a written timestamp, in tenths of a second
FracNanos(f) == IF f = "" THEN 0 ELSE 5

FracDigits(f) ==
    CASE f = "" -> 0
      [] f = ".5" -> 1
      [] f = ".500" -> 3
      [] OTHER -> 6

\* time.Time: an instant (unix, nsec) and the offset of its location
Time(u, n, o) == [unix |-> u, nsec |-> n, off |-> o]

\* time.Time{}: January 1, year 1, 00:00:00 UTC
ZeroUnix == 0 - 1000

ZeroTime == Time(ZeroUnix, 0, 0)

IsZero(t) == t.unix = ZeroUnix /\ t.nsec = 0

Before(t, u) == t.unix < u.unix \/ (t.unix = u.unix /\ t.nsec < u.nsec)

\* a timestamp as written: date and time joined by sep, an optional
\* fraction and an optional zone designator
Stamp(sep, hour, frac, zone) == [sep |-> sep, hour |-> hour, frac |-> frac, zone |-> zone]

-----------------------------------------------------------------------------
(* utils.ParseTimestamp *)

Layout(sep, frac, zone) == [sep |-> sep, frac |-> frac, zone |-> zone]

formats ==
    << Layout("T", "", "Z07:00"),
       Layout("T", ".999999999", "Z07:00"),
       Layout("T", "", ""),
       Layout(" ", "", ""),
       Layout("T", ".000", "Z"),
       Layout("T", ".000000", "Z") >>

\* time.Parse accepts a fraction after the seconds although the layout has
\* none; a layout of zeros wants exactly that many digits
FracMatches(layout, s) ==
    CASE layout.frac = ".000" -> FracDigits(s.frac) = 3
      [] layout.frac = ".000000" -> FracDigits(s.frac) = 6
      [] OTHER -> TRUE

ZoneMatches(layout, s) ==
    CASE layout.zone = "Z07:00" -> s.zone \in {"Z", "+00:00", "+01:00", "-01:00"}
      [] layout.zone = "Z" -> s.zone = "Z"
      [] OTHER -> s.zone = ""

Matches(layout, s) ==
    /\ s.sep = layout.sep
    /\ FracMatches(layout, s)
    /\ ZoneMatches(layout, s)

\* variant: the zone is read but the wall clock is taken as the instant
Parse_WallClock(layout, s) ==
    Time(s.hour, FracNanos(s.frac), ZoneOffset(s.zone))

\* time.Parse: a timestamp without a zone is read as UTC
Parse(layout, s) ==
    Time(s.hour - ZoneOffset(s.zone), FracNanos(s.frac), ZoneOffset(s.zone))

ParseTimestamp(s) ==
    LET hits == {i \in 1 .. Len(formats) : Matches(formats[i], s)}
    IN  IF hits = {}
        THEN [ok |-> FALSE, t |-> ZeroTime]
        ELSE LET first == CHOOSE i \in hits : \A j \in hits : i <= j
             IN  [ok |-> TRUE, t |-> Parse(formats[first], s)]

-----------------------------------------------------------------------------
(* models.IsValid *)

\* variant: the timestamps are checked before the title
IsValid_TimesFirst(event) ==
    LET startTime == ParseTimestamp(event.StartTime)
        endTime == ParseTimestamp(event.EndTime)
    IN  IF ~startTime.ok THEN InvalidTimeFormat
        ELSE IF ~endTime.ok THEN InvalidTimeFormat
        ELSE IF Before(endTime.t, startTime.t) THEN EndTimeBeforeStart
        ELSE IF event.Title = EmptyTitle THEN TitleEmpty
        ELSE IF len(event.Title) > MaxTitleLength THEN TitleTooLong
        ELSE NoError

\* variant: the title's length is not checked
IsValid_NoTitleLimit(event) ==
    LET startTime == ParseTimestamp(event.StartTime)
        endTime == ParseTimestamp(event.EndTime)
    IN  IF event.Title = EmptyTitle THEN TitleEmpty
        ELSE IF ~startTime.ok THEN InvalidTimeFormat
        ELSE IF ~endTime.ok THEN InvalidTimeFormat
        ELSE IF Before(endTime.t, startTime.t) THEN EndTimeBeforeStart
        ELSE NoError

IsValid(event) ==
    LET startTime == ParseTimestamp(event.StartTime)
        endTime == ParseTimestamp(event.EndTime)
    IN  IF event.Title = EmptyTitle THEN TitleEmpty
        ELSE IF len(event.Title) > MaxTitleLength THEN TitleTooLong
        ELSE IF ~startTime.ok THEN InvalidTimeFormat
        ELSE IF ~endTime.ok THEN InvalidTimeFormat
        ELSE IF Before(endTime.t, startTime.t) THEN EndTimeBeforeStart
        ELSE NoError

-----------------------------------------------------------------------------
(* repository.Database: the events table is a set of rows *)

Nil == 0

UUIDs == 1 .. NumUUIDs

NotFound == "event not found"
InsertFailed == "failed to insert event"
UpdateFailed == "failed to update event"
ScanFailed == "failed to get event"

\* Time.Format(time.RFC3339): the wall clock of the time's location, whole
\* seconds, and the zone
Format(t) == Stamp("T", t.unix + t.off, "", ZoneText(t.off))

\* variant: the table has no primary key
PrimaryKeyFree_Off(tbl, id) == TRUE

\* the constraints of CreateTable: PRIMARY KEY on id, CHECK on title
PrimaryKeyFree(tbl, id) == \A r \in tbl : r.id # id

TitleCheck(title) == length(title) <= TitleCheckLimit

Row(event) ==
    [id |-> event.ID,
     title |-> event.Title,
     description |-> event.Description,
     start_time |-> Format(event.StartTime),
     end_time |-> Format(event.EndTime),
     created_at |-> Format(event.CreatedAt)]

\* u is what uuid.New() returns, now what time.Now() returns
InsertEvent(tbl, event, u, now) ==
    LET ev == [event EXCEPT
                 !.ID = IF event.ID = Nil THEN u ELSE event.ID,
                 !.CreatedAt = IF IsZero(event.CreatedAt) THEN now ELSE event.CreatedAt]
        ok == PrimaryKeyFree(tbl, ev.ID) /\ TitleCheck(ev.Title)
    IN  [err |-> IF ok THEN NoError ELSE InsertFailed,
         rows |-> IF ok THEN tbl \cup {Row(ev)} ELSE tbl,
         event |-> ev]

\* the row read back: time.Parse(time.RFC3339, ...) on the three columns
Scan(r) ==
    LET startTime == IF Matches(formats[1], r.start_time)
                     THEN <<Parse(formats[1], r.start_time)>> ELSE <<>>
        endTime == IF Matches(formats[1], r.end_time)
                   THEN <<Parse(formats[1], r.end_time)>> ELSE <<>>
        createdAt == IF Matches(formats[1], r.created_at)
                     THEN <<Parse(formats[1], r.created_at)>> ELSE <<>>
    IN  IF startTime = <<>> \/ endTime = <<>> \/ createdAt = <<>>
        THEN <<>>
        ELSE << [ID |-> r.id,
                 Title |-> r.title,
                 Description |-> r.description,
                 StartTime |-> startTime[1],
                 EndTime |-> endTime[1],
                 CreatedAt |-> createdAt[1]] >>

\* variant: the query has lost its WHERE clause
GetEventByID_AnyRow(tbl, id) ==
    IF tbl = {}
    THEN [err |-> NotFound, event |-> <<>>]
    ELSE LET ev == Scan(CHOOSE r \in tbl : TRUE)
         IN  [err |-> IF ev = <<>> THEN ScanFailed ELSE NoError, event |-> ev]

GetEventByID(tbl, id) ==
    LET hit == {r \in tbl : r.id = id}
    IN  IF hit = {}
        THEN [err |-> NotFound, event |-> <<>>]
        ELSE LET ev == Scan(CHOOSE r \in hit : TRUE)
             IN  [err |-> IF ev = <<>> THEN ScanFailed ELSE NoError, event |-> ev]

\* SQLite compares the stored start_time as text: the date and time, which
\* have a fixed width, and then the zone, where "+" < "-" < "Z"
ZoneRank(z) ==
    CASE z = "+01:00" -> 1
      [] z = "-01:00" -> 2
      [] OTHER -> 3

TextLess(a, b) ==
    \/ a.hour < b.hour
    \/ a.hour = b.hour /\ ZoneRank(a.zone) < ZoneRank(b.zone)

\* ORDER BY start_time ASC: the orders the query may return (rows of equal
\* start_time come in any order)
OrderByStartTime(tbl) ==
    {f \in [1 .. Cardinality(tbl) -> tbl] :
        /\ \A i, j \in 1 .. Cardinality(tbl) : i # j => f[i] # f[j]
        /\ \A i, j \in 1 .. Cardinality(tbl) :
              i < j => ~TextLess(f[j].start_time, f[i].start_time)}

\* one result of GetAllEvents for the order f of the rows
GetAllEvents(f) ==
    IF \E i \in 1 .. Len(f) : Scan(f[i]) = <<>>
    THEN [err |-> ScanFailed, events |-> <<>>]
    ELSE [err |-> NoError, events |-> [i \in 1 .. Len(f) |-> Scan(f[i])[1]]]

\* variant: the statement sets created_at as well
UpdateEvent_SetsCreatedAt(tbl, event) ==
    LET hit == {r \in tbl : r.id = event.ID}
        set(r) == [r EXCEPT !.title = event.Title,
                            !.description = event.Description,
                            !.start_time = Format(event.StartTime),
                            !.end_time = Format(event.EndTime),
                            !.created_at = Format(event.CreatedAt)]
    IN  IF hit # {} /\ ~TitleCheck(event.Title)
        THEN [err |-> UpdateFailed, rows |-> tbl, rowsAffected |-> 0]
        ELSE IF hit = {}
        THEN [err |-> NotFound, rows |-> tbl, rowsAffected |-> 0]
        ELSE [err |-> NoError,
              rows |-> (tbl \ hit) \cup {set(r) : r \in hit},
              rowsAffected |-> Cardinality(hit)]

UpdateEvent(tbl, event) ==
    LET hit == {r \in tbl : r.id = event.ID}
        set(r) == [r EXCEPT !.title = event.Title,
                            !.description = event.Description,
                            !.start_time = Format(event.StartTime),
                            !.end_time = Format(event.EndTime)]
    IN  IF hit # {} /\ ~TitleCheck(event.Title)
        THEN [err |-> UpdateFailed, rows |-> tbl, rowsAffected |-> 0]
        ELSE IF hit = {}
        THEN [err |-> NotFound, rows |-> tbl, rowsAffected |-> 0]
        ELSE [err |-> NoError,
              rows |-> (tbl \ hit) \cup {set(r) : r \in hit},
              rowsAffected |-> Cardinality(hit)]

\* variant: the statement has lost its WHERE clause
DeleteEvent_All(tbl, id) ==
    IF tbl = {}
    THEN [err |-> NotFound, rows |-> tbl, rowsAffected |-> 0]
    ELSE [err |-> NoError, rows |-> {}, rowsAffected |-> Cardinality(tbl)]

DeleteEvent(tbl, id) ==
    LET hit == {r \in tbl : r.id = id}
    IN  IF hit = {}
        THEN [err |-> NotFound, rows |-> tbl, rowsAffected |-> 0]
        ELSE [err |-> NoError, rows |-> tbl \ hit, rowsAffected |-> Cardinality(hit)]

-----------------------------------------------------------------------------
(* uuid.Parse on the :id path parameter *)

\* an identifier as written: in one of the forms uuid.Parse reads, or not
IdForms == {"canonical", "upper", "urn", "braced"}

IdParam(form, u) == [form |-> form, u |-> u]

uuidParse(s) ==
    IF s.form \in IdForms
    THEN [ok |-> TRUE, id |-> s.u]
    ELSE [ok |-> FALSE, id |-> Nil]

-----------------------------------------------------------------------------
(* Inputs *)

LongTitle == Str(MaxTitleLength + 1, MaxTitleLength + 1)

\* titles of the validation runs: around the limit, in one-byte and in
\* multi-byte characters
Titles ==
    {EmptyTitle, ShortTitle, LongTitle,
     Str(MaxTitleLength, MaxTitleLength),
     Str(MaxTitleLength, 2 * MaxTitleLength),
     Str(MaxTitleLength - 1, MaxTitleLength + 1),
     Str(MaxTitleLength \div 2, MaxTitleLength)}

Descriptions == {NilDescription, "sync"}

Zones == {"", "Z", "+00:00", "+01:00", "-01:00"}

Fracs == {"", ".5", ".500", ".500000"}

\* "/" stands for any text that is no timestamp
Stamps ==
    {Stamp(sep, h, f, z) : sep \in {"T", " "}, h \in Hours, f \in Fracs, z \in Zones}
        \cup {Stamp("/", 0, "", "")}

Request(title, description, startTime, endTime) ==
    [Title |-> title, Description |-> description,
     StartTime |-> startTime, EndTime |-> endTime]

Requests ==
    {Request(t, NilDescription, s, e) : t \in Titles, s \in Stamps, e \in Stamps}

\* requests to the server: starts east and west of UTC, with and without a
\* fraction, or unreadable; ends before every start or after them all
StartStamps ==
    {Stamp("T", h, f, z) : h \in Hours, f \in {"", ".5"}, z \in {"+01:00", "-01:00"}}
        \cup {Stamp("/", 0, "", "")}

EarlyStamp == Stamp("T", 0, "", "+01:00")

LateStamp == Stamp("T", MaxHour, ".5", "-01:00")

ServerRequests ==
    {Request(ShortTitle, NilDescription, s, e) :
        s \in StartStamps, e \in {EarlyStamp, LateStamp}}
        \cup {Request(ShortTitle, "sync", EarlyStamp, LateStamp)}
        \cup {Request(t, NilDescription, EarlyStamp, LateStamp) : t \in {EmptyTitle, LongTitle}}

\* what time.Now() returns: an instant between two whole seconds
Nows == {Time(MaxHour, 5, 0)}

IdParams == {IdParam(form, u) : form \in {"canonical", "urn", "text"}, u \in 0 .. NumUUIDs}

\* events handed to the repository by a caller
StoreTimes == {Time(0, 0, 0), Time(MaxHour, 0, 0)}

Fields(title, description, startTime, endTime) ==
    [Title |-> title, Description |-> description,
     StartTime |-> startTime, EndTime |-> endTime]

\* a plain event from the first hour to the last, and that event with its
\* start and end swapped, with a start between two whole seconds, with a
\* title over the limit, and with a title at the limit and a description
StoreFields ==
    {Fields(ShortTitle, NilDescription, p[1], p[2]) :
         p \in {q \in StoreTimes \X StoreTimes : q[1] # q[2]}}
        \cup {Fields(ShortTitle, NilDescription, Time(0, 5, 0), Time(MaxHour, 0, 0))}
        \cup {Fields(LongTitle, NilDescription, Time(0, 0, 0), Time(MaxHour, 0, 0))}
        \cup {Fields(Str(MaxTitleLength, MaxTitleLength), "sync",
                     Time(0, 0, 0), Time(MaxHour, 0, 0))}

StoreEvents ==
    {[ID |-> i, Title |-> f.Title, Description |-> f.Description,
      StartTime |-> f.StartTime, EndTime |-> f.EndTime, CreatedAt |-> c] :
        i \in 0 .. NumUUIDs, f \in StoreFields, c \in {ZeroTime, Time(0, 0, 0)}}

-----------------------------------------------------------------------------
(* State: the events table and the last call with its outcome *)

\* a call of the repository: the event (of an update) and the identifier it
\* is called with, the rows affected, the error and the events it hands back
Direct(op, arg, id, rowsAffected, err, body) ==
    [op |-> op, req |-> arg, idParam |-> <<>>, id |-> id,
     status |-> rowsAffected, err |-> err, body |-> body, calls |-> <<>>]

\* a request to the service and its response
Call(op, req, idParam, id, status, err, body, calls) ==
    [op |-> op, req |-> req, idParam |-> idParam, id |-> id,
     status |-> status, err |-> err, body |-> body, calls |-> calls]

Init ==
    /\ rows = {}
    /\ last = Call("none", <<>>, <<>>, Nil, 0, NoError, <<>>, <<>>)

\* a request bound by createEvent, before it is validated
InitValidate ==
    /\ rows = {}
    /\ \E req \in Requests :
         last = Call("Bind", <<req>>, <<>>, Nil, 0, NoError, <<>>, <<>>)

-----------------------------------------------------------------------------
(* service.Server: the handlers. A response is the status, the error       *)
(* message or the body, the table afterwards and the repository calls made *)

\* time.Time as c.JSON writes it: wall clock, the fraction of a second when
\* there is one, and the offset, Z for offset zero
MarshalJSON(t) ==
    Stamp("T", t.unix + t.off, IF t.nsec = 0 THEN "" ELSE ".5", ZoneText(t.off))

\* models.Event as c.JSON writes it
JSON(event) ==
    [id |-> event.ID,
     title |-> event.Title,
     description |-> event.Description,
     start_time |-> MarshalJSON(event.StartTime),
     end_time |-> MarshalJSON(event.EndTime),
     created_at |-> MarshalJSON(event.CreatedAt)]

Response(status, err, body, tbl, calls) ==
    [status |-> status, err |-> err, body |-> body, rows |-> tbl, calls |-> calls]

\* variant: the event is inserted before the request is validated
createEvent_InsertFirst(tbl, req, u, now) ==
    LET err == IsValid(req)
        event == [ID |-> Nil,
                  Title |-> req.Title,
                  Description |-> req.Description,
                  StartTime |-> ParseTimestamp(req.StartTime).t,
                  EndTime |-> ParseTimestamp(req.EndTime).t,
                  CreatedAt |-> ZeroTime]
        ins == InsertEvent(tbl, event, u, now)
    IN  IF ins.err # NoError
        THEN Response(500, "Failed to create event", <<>>, ins.rows, <<"InsertEvent">>)
        ELSE IF err # NoError
        THEN Response(400, err, <<>>, ins.rows, <<"InsertEvent">>)
        ELSE Response(201, NoError, <<ins.event>>, ins.rows, <<"InsertEvent">>)

\* createEvent once the body is bound to req
createEvent(tbl, req, u, now) ==
    LET err == IsValid(req)
        event == [ID |-> Nil,
                  Title |-> req.Title,
                  Description |-> req.Description,
                  StartTime |-> ParseTimestamp(req.StartTime).t,
                  EndTime |-> ParseTimestamp(req.EndTime).t,
                  CreatedAt |-> ZeroTime]
        ins == InsertEvent(tbl, event, u, now)
    IN  IF err # NoError
        THEN Response(400, err, <<>>, tbl, <<>>)
        ELSE IF ins.err # NoError
        THEN Response(500, "Failed to create event", <<>>, ins.rows, <<"InsertEvent">>)
        ELSE Response(201, NoError, <<ins.event>>, ins.rows, <<"InsertEvent">>)

\* listEvents when the query returns the rows in the order f
listEvents(tbl, f) ==
    LET got == GetAllEvents(f)
    IN  IF got.err # NoError
        THEN Response(500, "Failed to retrieve events", <<>>, tbl, <<"GetAllEvents">>)
        ELSE Response(200, NoError, got.events, tbl, <<"GetAllEvents">>)

getEventByID(tbl, idParam) ==
    LET id == uuidParse(idParam)
        got == GetEventByID(tbl, id.id)
    IN  IF ~id.ok
        THEN Response(400, "Invalid UUID format", <<>>, tbl, <<>>)
        ELSE IF got.err = NotFound
        THEN Response(404, "Event not found", <<>>, tbl, <<"GetEventByID">>)
        ELSE IF got.err # NoError
        THEN Response(500, "Failed to retrieve event", <<>>, tbl, <<"GetEventByID">>)
        ELSE Response(200, NoError, got.event, tbl, <<"GetEventByID">>)

-----------------------------------------------------------------------------
(* Steps *)

\* models.IsValid on the bound request, and the status createEvent answers
Validate ==
    /\ last.op = "Bind"
    /\ LET err == IsValid(last.req[1])
       IN  last' = Call("IsValid", last.req, <<>>, Nil,
                        IF err = NoError THEN 0 ELSE 400, err, <<>>, <<>>)
    /\ UNCHANGED rows

\* POST /api/v1/events: the body does not bind, or it binds to a request
PostEvents ==
    \/ /\ last' = Call("createEvent", <<>>, <<>>, Nil, 400, "Invalid request payload",
                       <<>>, <<>>)
       /\ UNCHANGED rows
    \/ \E req \in ServerRequests, u \in UUIDs, now \in Nows :
        \E res \in {createEvent(rows, req, u, now)} :
            /\ last' = Call("createEvent", <<>>, <<>>, Nil, res.status, res.err,
                            res.body, res.calls)
            /\ rows' = res.rows

\* GET /api/v1/events
GetEvents ==
    \E f \in OrderByStartTime(rows) :
        \E res \in {listEvents(rows, f)} :
            /\ last' = Call("listEvents", <<>>, <<>>, Nil, res.status, res.err,
                            res.body, res.calls)
            /\ rows' = res.rows

\* GET /api/v1/events/:id
GetEventsId ==
    \E idParam \in IdParams :
        \E res \in {getEventByID(rows, idParam)} :
            /\ last' = Call("getEventByID", <<>>, <<idParam>>, Nil, res.status, res.err,
                            res.body, res.calls)
            /\ rows' = res.rows

\* Database.InsertEvent called with any event
Insert ==
    \E event \in StoreEvents, now \in Nows :
      \E u \in IF event.ID = Nil THEN UUIDs ELSE {Nil} :
        \E ins \in {InsertEvent(rows, event, u, now)} :
            /\ rows' = ins.rows
            /\ last' = Direct("InsertEvent",
                               IF ins.err = NoError THEN <<event>> ELSE <<>>,
                               ins.event.ID, 0, ins.err, <<>>)

\* Database.UpdateEvent called with any event
Update ==
    \E event \in StoreEvents :
        \E upd \in {UpdateEvent(rows, event)} :
            /\ rows' = upd.rows
            /\ last' = Direct("UpdateEvent", <<event>>, event.ID, upd.rowsAffected,
                              upd.err, <<>>)

\* Database.DeleteEvent called with any identifier
Delete ==
    \E id \in 0 .. NumUUIDs :
        \E del \in {DeleteEvent(rows, id)} :
            /\ rows' = del.rows
            /\ last' = Direct("DeleteEvent", <<>>, id, del.rowsAffected, del.err, <<>>)

\* Database.GetEventByID called with any identifier
Get ==
    \E id \in 0 .. NumUUIDs :
        \E got \in {GetEventByID(rows, id)} :
            /\ last' = Direct("GetEventByID", <<>>, id, 0, got.err, got.event)
            /\ UNCHANGED rows

\* Database.GetAllEvents
GetAll ==
    \E f \in OrderByStartTime(rows) :
        \E got \in {GetAllEvents(f)} :
            /\ last' = Direct("GetAllEvents", <<>>, Nil, 0, got.err, got.events)
            /\ UNCHANGED rows

\* the HTTP service, and a caller deleting events
Next == PostEvents \/ GetEvents \/ GetEventsId \/ Delete

Spec == Init /\ [][Next]_vars

\* the validator on its own
NextValidate == Validate

SpecValidate == InitValidate /\ [][NextValidate]_vars

\* the repository under any caller
NextStore == Insert \/ Update \/ Delete \/ Get \/ GetAll

SpecStore == Init /\ [][NextStore]_vars

-----------------------------------------------------------------------------
(* Properties of the validator, under SpecValidate *)

Validated == last.op = "IsValid"

Readable(s) == ParseTimestamp(s).ok

\* the instant a readable timestamp denotes, in tenths of a second: the wall
\* clock less the offset; without a zone the wall clock is UTC
InstantOf(s) == (s.hour - ZoneOffset(s.zone)) * 36000 + FracNanos(s.frac)

\* the four rules in the order of the validator's contract
CheckOrder == <<TitleEmpty, TitleTooLong, InvalidTimeFormat, EndTimeBeforeStart>>

Broken(rule, req) ==
    CASE rule = TitleEmpty -> req.Title = EmptyTitle
      [] rule = TitleTooLong -> len(req.Title) > MaxTitleLength
      [] rule = InvalidTimeFormat -> ~Readable(req.StartTime) \/ ~Readable(req.EndTime)
      [] rule = EndTimeBeforeStart ->
            /\ Readable(req.StartTime)
            /\ Readable(req.EndTime)
            /\ InstantOf(req.EndTime) < InstantOf(req.StartTime)

\* C1: IsValid returns the error of the earliest broken rule in the order
\* TitleEmpty, TitleTooLong, InvalidTimeFormat, EndTimeBeforeStart, and nil
\* only when no rule is broken.
C1_FirstBrokenRule ==
    Validated =>
        LET req == last.req[1]
            broken == {i \in 1 .. Len(CheckOrder) : Broken(CheckOrder[i], req)}
        IN  IF broken = {}
            THEN last.err = NoError
            ELSE /\ last.err = CheckOrder[CHOOSE i \in broken : \A j \in broken : i <= j]
                 /\ last.status = 400

\* a too-long title with the end before the start is answered TitleTooLong
C1_Witness ==
    /\ Validated
    /\ Broken(TitleTooLong, last.req[1])
    /\ Broken(EndTimeBeforeStart, last.req[1])
    /\ last.err = TitleTooLong

OtherwiseValid(req) ==
    /\ Readable(req.StartTime)
    /\ Readable(req.EndTime)
    /\ InstantOf(req.EndTime) >= InstantOf(req.StartTime)

\* C2: with otherwise valid fields, a title of more than 100 characters is
\* rejected with TitleTooLong and a title of exactly 100 characters is
\* accepted, whatever the width of its characters. (Fails: a title of 100
\* two-byte characters is rejected.)
C2_LimitInCharacters ==
    (Validated /\ OtherwiseValid(last.req[1])) =>
        LET title == last.req[1].Title
        IN  /\ title.chars > MaxTitleLength => (last.err = TitleTooLong /\ last.status = 400)
            /\ title.chars = MaxTitleLength => last.err = NoError

-----------------------------------------------------------------------------
(* Properties of the service, under Spec *)

Created == last.op = "createEvent" /\ last.status = 201

SameInstant(t, u) == t.unix = u.unix /\ t.nsec = u.nsec

\* C4: after a successful create, fetching the returned id yields the title
\* and description submitted and a start and end time that denote the
\* submitted instants. The 201 body holds the submitted title, description
\* and parsed timestamps as createEvent built them. (Fails: the fraction of a
\* second is not stored.)
C4_RoundTrip ==
    Created =>
        LET sent == last.body[1]
            got == GetEventByID(rows, sent.ID)
        IN  /\ got.err = NoError
            /\ got.event[1].Title = sent.Title
            /\ got.event[1].Description = sent.Description
            /\ SameInstant(got.event[1].StartTime, sent.StartTime)
            /\ SameInstant(got.event[1].EndTime, sent.EndTime)

\* C5: a listing returns every stored event exactly once, an event of an
\* earlier start instant before one of a later start instant. (Fails: the
\* rows are ordered by the text of start_time, offset included.)
C5_ListedByStartInstant ==
    (last.op = "listEvents" /\ last.status = 200) =>
        /\ Len(last.body) = Cardinality(rows)
        /\ {last.body[i].ID : i \in 1 .. Len(last.body)} = {r.id : r \in rows}
        /\ \A i, j \in 1 .. Len(last.body) :
              i < j => ~Before(last.body[j].StartTime, last.body[i].StartTime)

FourErrors == {TitleEmpty, TitleTooLong, InvalidTimeFormat, EndTimeBeforeStart}

\* C6: GET /events/:id answers 400 without querying the store when the id
\* is not a well-formed identifier, 404 when it is well-formed and no stored
\* event has it, and 200 with that event when one has.
C6_GetByIdOutcome ==
    last.op = "getEventByID" =>
        LET idParam == last.idParam[1]
            stored == {r \in rows : r.id = idParam.u}
        IN  IF idParam.form \notin IdForms
            THEN last.status = 400 /\ last.calls = <<>> /\ last.body = <<>>
            ELSE IF stored = {}
            THEN last.status = 404 /\ last.body = <<>>
            ELSE /\ last.status = 200
                 /\ Len(last.body) = 1
                 /\ \E r \in stored :
                       /\ last.body[1].ID = r.id
                       /\ last.body[1].Title = r.title
                       /\ last.body[1].Description = r.description
                       /\ Format(last.body[1].StartTime) = r.start_time
                       /\ Format(last.body[1].EndTime) = r.end_time

\* a well-formed id that no stored event has, while another event is stored
C6_Witness ==
    /\ last.op = "getEventByID"
    /\ last.status = 404
    /\ last.idParam[1].u \in UUIDs
    /\ rows # {}

\* C7: a create answered with one of the four validation errors leaves the
\* table as it was and reaches no repository call, so that no id and no
\* created_at is assigned.
C7_RejectedBeforePersistence ==
    [][(last'.op = "createEvent" /\ last'.err \in FourErrors) =>
          /\ rows' = rows
          /\ last'.status = 400
          /\ last'.calls = <<>>
          /\ last'.body = <<>>]_vars

\* a create rejected for its end time while events are stored
C7_Witness ==
    /\ last.op = "createEvent"
    /\ last.err = EndTimeBeforeStart
    /\ rows # {}

-----------------------------------------------------------------------------
(* Properties of the repository, under SpecStore *)

WithId(tbl, id) == {r \in tbl : r.id = id}

Others(tbl, id) == {r \in tbl : r.id # id}

\* C8: an InsertEvent whose identifier is already in the table fails and
\* leaves every row as it was, and no two rows ever share an identifier.
\* (The repository has one insert error, "failed to insert event", for every
\* constraint the table rejects a row by.)
C8_DuplicateInsertRejected ==
    [][/\ (last'.op = "InsertEvent" /\ WithId(rows, last'.id) # {}) =>
            (last'.err = InsertFailed /\ rows' = rows)
       /\ \A r1, r2 \in rows' : r1.id = r2.id => r1 = r2]_vars

\* an insert refused: a row of its identifier is stored, among others
C8_Witness ==
    /\ last.op = "InsertEvent"
    /\ last.err = InsertFailed
    /\ WithId(rows, last.id) # {}
    /\ Cardinality(rows) > 1

\* the one row of the identifier is changed, or removed, and no other
OneRowChanged(op, id, before, after, rowsAffected) ==
    /\ rowsAffected = 1
    /\ Others(after, id) = Others(before, id)
    /\ op = "DeleteEvent" => WithId(after, id) = {}
    /\ op = "UpdateEvent" => Cardinality(WithId(after, id)) = 1

\* C9 as claimed: UpdateEvent and DeleteEvent fail with NotFound and leave
\* the table unchanged when no row has the identifier, and otherwise change
\* exactly the one row that has it. (Fails: an update to a title the table's
\* CHECK rejects changes no row although a row has the identifier.)
C9_NotFoundOrOneRow ==
    [][last'.op \in {"UpdateEvent", "DeleteEvent"} =>
          IF WithId(rows, last'.id) = {}
          THEN last'.err = NotFound /\ rows' = rows
          ELSE /\ last'.err = NoError
               /\ OneRowChanged(last'.op, last'.id, rows, rows', last'.status)]_vars

\* C9 as amended: ... and otherwise change exactly the one row that has it,
\* unless the update's title is longer than the table's CHECK allows: that
\* update fails with an error other than NotFound and changes no row.
C9_NotFoundOrOneRowOrCheck ==
    [][last'.op \in {"UpdateEvent", "DeleteEvent"} =>
          IF WithId(rows, last'.id) = {}
          THEN last'.err = NotFound /\ rows' = rows
          ELSE IF last'.op = "UpdateEvent" /\ length(last'.req[1].Title) > TitleCheckLimit
          THEN last'.err = UpdateFailed /\ rows' = rows
          ELSE /\ last'.err = NoError
               /\ OneRowChanged(last'.op, last'.id, rows, rows', last'.status)]_vars

\* a delete that removed one row of several
C9_Witness ==
    /\ last.op = "DeleteEvent"
    /\ last.err = NoError
    /\ last.status = 1
    /\ rows # {}

\* C10: every stored event ends no earlier than it starts. (Fails: the
\* repository stores the start and end it is given; only IsValid, on the
\* way of a create request, compares them.)
C10_StartNotAfterEnd ==
    \A r \in rows :
        /\ Scan(r) # <<>>
        /\ ~Before(Scan(r)[1].EndTime, Scan(r)[1].StartTime)

\* C11: a successful UpdateEvent sets title, description, start_time and
\* end_time of the row of the event's identifier to those of the event; the
\* row keeps its id and its created_at whatever CreatedAt the event carries,
\* and every other row is unchanged.
C11_UpdateKeepsIdAndCreatedAt ==
    [][(last'.op = "UpdateEvent" /\ last'.err = NoError) =>
          LET event == last'.req[1]
          IN  /\ Others(rows', event.ID) = Others(rows, event.ID)
              /\ Cardinality(WithId(rows, event.ID)) = 1
              /\ Cardinality(WithId(rows', event.ID)) = 1
              /\ \A old \in WithId(rows, event.ID), new \in WithId(rows', event.ID) :
                    /\ new.id = old.id
                    /\ new.created_at = old.created_at
                    /\ new.title = event.Title
                    /\ new.description = event.Description
                    /\ new.start_time = Format(event.StartTime)
                    /\ new.end_time = Format(event.EndTime)]_vars

\* an update by an event whose CreatedAt is set and is not the row's, which
\* gave the row a new title and a description, while another row is stored
C11_Witness ==
    /\ last.op = "UpdateEvent"
    /\ last.err = NoError
    /\ ~IsZero(last.req[1].CreatedAt)
    /\ last.req[1].Title # ShortTitle
    /\ last.req[1].Description # NilDescription
    /\ \A r \in WithId(rows, last.id) : r.created_at # Format(last.req[1].CreatedAt)
    /\ Others(rows, last.id) # {}

\* C12: the entity written in the 201 response of a create is the entity a
\* GET of its id then writes: the same id, title, description, start_time,
\* end_time and created_at, every timestamp without a fraction of a second.
\* (Fails: the 201 response writes the event in memory, whose created_at is
\* time.Now() and whose start and end are the parsed instants, fraction
\* included; the GET writes what was stored, cut to whole seconds.)
C12_CreatedIsFetched ==
    Created =>
        LET sent == JSON(last.body[1])
            got == getEventByID(rows, IdParam("canonical", last.body[1].ID))
        IN  /\ got.status = 200
            /\ JSON(got.body[1]) = sent
            /\ sent.start_time.frac = ""
            /\ sent.end_time.frac = ""
            /\ sent.created_at.frac = ""

\* C13: an event inserted with an identifier is stored under that
\* identifier, one inserted without is stored under a new identifier that no
\* stored row had; an event inserted with a CreatedAt is stored with that
\* instant as created_at, one inserted without with the current time, to the
\* second; title, description and the start and end instants are stored as
\* given, and no other row changes. (Fails: start, end and created_at are
\* stored cut to whole seconds.)
C13_InsertStoresAsGiven ==
    [][(last'.op = "InsertEvent" /\ last'.err = NoError) =>
          LET given == last'.req[1]
              id == last'.id
          IN  /\ given.ID # Nil => id = given.ID
              /\ given.ID = Nil => (id # Nil /\ WithId(rows, id) = {})
              /\ Others(rows', id) = rows
              /\ Cardinality(WithId(rows', id)) = 1
              /\ \A r \in WithId(rows', id) :
                    /\ r.title = given.Title
                    /\ r.description = given.Description
                    /\ Scan(r) # <<>>
                    /\ SameInstant(Scan(r)[1].StartTime, given.StartTime)
                    /\ SameInstant(Scan(r)[1].EndTime, given.EndTime)
                    /\ IF IsZero(given.CreatedAt)
                       THEN \E now \in Nows : r.created_at = Format(now)
                       ELSE SameInstant(Scan(r)[1].CreatedAt, given.CreatedAt)]_vars

\* C14: a request that IsValid accepts has a title the table's
\* CHECK(length(title) <= 100) accepts, and createEvent on a table where no
\* identifier is taken, where the title check is the one constraint an
\* insert can break, answers it with 201, never with 500.
C14_ValidatedTitlePassesCheck ==
    (Validated /\ last.err = NoError) =>
        LET req == last.req[1]
        IN  /\ TitleCheck(req.Title)
            /\ \A u \in UUIDs, now \in Nows :
                  createEvent(rows, req, u, now).status = 201

\* accepted requests at the validator's limit: a title of 100 bytes that is
\* 100 characters, and one that is fewer
C14_Witness ==
    /\ Validated
    /\ last.err = NoError
    /\ len(last.req[1].Title) = MaxTitleLength
    /\ length(last.req[1].Title) \in {MaxTitleLength \div 2, TitleCheckLimit}

====
